---- MODULE Spec2Model ----
(***************************************************************************)
(* Investment scoring and weighted ranking of InvestMTL.                   *)
(*                                                                         *)
(* Numbers.  Weights are held as integer hundredths (25 is 0.25) and a     *)
(* weight vector that went through a division carries the divisor as a     *)
(* common denominator, so the arithmetic is exact: the rounding error of   *)
(* IEEE doubles is not modelled.  Totals are integer hundredths of a point *)
(* (7150 is 71.5).  Sub-scores are integers.  A vector over the five       *)
(* categories is a 5-tuple in the order growth, supply, tension,           *)
(* accessibility, returns.                                                 *)
(***************************************************************************)
EXTENDS Integers, Sequences, FiniteSets, TLC

VARIABLES
    wq,         \* core: the five w_* query parameters of a score request
    cw,         \* core: the caller's numeric weight vector (client side)
    fromClient, \* core: TRUE when wq was built by the client from cw
    sub,        \* core: the five sub-scores being aggregated
    srv,        \* core: outcome of the server path
    cli,        \* core: outcome of the client path
    scores,     \* repository: rows of the scores table
    request,    \* API: the request being answered
    response,   \* API: the response of that request
    dbReads,    \* API: repository reads issued while answering it
    defaultWeights, \* API: the DEFAULT_WEIGHTS object of the scores routes
    values,     \* library: the reference population / the list of scores
    newValue,   \* library: the value being scaled or classified
    thresholds, \* library: the threshold table in use
    scaled,     \* library: outcome of robustScale
    bands,      \* library: outcome of the classifications
    favorites,  \* favorites: rows of the favorites table
    nextId,     \* favorites: the next AUTOINCREMENT id
    favReq,     \* favorites: the requests in progress, one per client
    favStarted, \* favorites: number of requests started
    kv,         \* rate limit: the KV value of the window's key
    rateReq,    \* rate limit: the requests in the middleware, one per client
    passed,     \* rate limit: requests let through to the route handlers
    cache,      \* client cache: the Map of InvestMTLAPI
    clock,      \* client cache: Date.now()
    cacheTimeout, \* client cache: this.cacheTimeout
    calls,      \* client cache: the fetchWithCache calls in flight, one per caller
    returned,   \* client cache: the last fetchWithCache call that ended
    user,       \* auth: the user state of AuthProvider (set or null)
    token,      \* auth: the token state of AuthProvider
    storedToken, \* auth: localStorage investmtl_token
    storedUser, \* auth: localStorage investmtl_user (present or not)
    isLoading,  \* auth: the isLoading state of AuthProvider
    authCalls,  \* auth: the requests in flight
    issued,     \* auth: number of tokens the server has issued
    loginTokens, \* auth: the tokens issued by login or register
    authEvent,  \* auth: the last completion
    comparedAreas, \* app: the comparedAreas state of App
    showCompareDrawer, \* app: the showCompareDrawer state of App
    drawer,     \* app: what CompareDrawer rendered last
    appEvent    \* app: the last event App handled

vars == <<wq, cw, fromClient, sub, srv, cli, scores, request, response, dbReads,
          defaultWeights, values, newValue, thresholds, scaled, bands,
          favorites, nextId, favReq, favStarted, kv, rateReq, passed,
          cache, clock, cacheTimeout, calls, returned,
          user, token, storedToken, storedUser, isLoading, authCalls, issued,
          loginTokens, authEvent,
          comparedAreas, showCompareDrawer, drawer, appEvent>>

coreVars == <<wq, cw, fromClient, sub, srv, cli>>
apiVars == <<scores, request, response, dbReads, defaultWeights>>
libVars == <<values, newValue, thresholds, scaled, bands>>
favVars == <<favorites, nextId, favReq, favStarted>>
rateVars == <<kv, rateReq, passed>>
cacheVars == <<cache, clock, cacheTimeout, calls, returned>>
authVars == <<user, token, storedToken, storedUser, isLoading, authCalls, issued,
             loginTokens, authEvent>>
appVars == <<comparedAreas, showCompareDrawer, drawer, appEvent>>

\* The components beside the scoring core, the API and the library
sideVars == <<favVars, rateVars, cacheVars, authVars, appVars>>
scoringVars == <<coreVars, apiVars, libVars>>

-----------------------------------------------------------------------------
(* Bounds *)

\* Client weight components range over -0.05, 0 and 0.15, 0.20, .. MaxWeightStep*0.05
MaxWeightStep == 5

\* Rows the scores table holds at most
MaxRows == 2

\* Snapshot dates are 1..MaxDate
MaxDate == 2

\* A comparison request names at most MaxIds area ids
MaxIds == 6

\* A reference population / a list of scores has at most MaxPopulation values
MaxPopulation == 3

\* Concurrent clients of the favorites routes, and requests they start in all
MaxFavClients == 2
MaxFavRequests == 3

\* Concurrent requests of one client IP in one window, and the configured limit
MaxRateClients == 4
ConfiguredLimit == 2

\* Concurrent callers of the client cache, and the reach of its clock (minutes)
MaxCacheCallers == 2
MaxClock == 6

\* Tokens the auth server issues, and auth requests in flight together
MaxTokens == 3
MaxAuthCalls == 2

\* Areas the user can pick for the comparison
MaxAppAreas == 4

-----------------------------------------------------------------------------
(* Small helpers *)

Cat == 1..5

Abs(x) == IF x < 0 THEN -x ELSE x

Sum5(v) == v[1] + v[2] + v[3] + v[4] + v[5]

\* A rounding that drops the fraction instead
MathRoundTruncating(n, d) == n \div d

\* Math.round(n/d), d > 0: the nearest integer, halves toward +infinity
MathRound(n, d) == (2 * n + d) \div (2 * d)

-----------------------------------------------------------------------------
(* Query-parameter texts and number conversion *)

Digits == <<"0", "1", "2", "3", "4", "5", "6", "7", "8", "9">>

IsDigit(c) == \E i \in 1..10 : Digits[i] = c

DigitVal(c) == (CHOOSE i \in 1..10 : Digits[i] = c) - 1

RECURSIVE LeadDigits(_)
LeadDigits(s) == IF s = <<>> \/ ~IsDigit(Head(s)) THEN 0
                 ELSE 1 + LeadDigits(Tail(s))

RECURSIVE DigitsValue(_, _)
DigitsValue(s, n) == IF n = 0 THEN 0
                     ELSE 10 * DigitsValue(s, n - 1) + DigitVal(s[n])

RECURSIVE NatToText(_)
NatToText(n) == IF n < 10 THEN <<Digits[n + 1]>>
                ELSE NatToText(n \div 10) \o <<Digits[(n % 10) + 1]>>

\* Number.prototype.toString of a weight (hundredths): "0.25", "0.2", "-0.05", "1"
NumToString(v) ==
    LET a == Abs(v)
        ip == a \div 100
        fp == a % 100
        frac == IF fp = 0 THEN <<>>
                ELSE IF fp % 10 = 0 THEN <<".", Digits[(fp \div 10) + 1]>>
                ELSE <<".", Digits[(fp \div 10) + 1], Digits[(fp % 10) + 1]>>
    IN (IF v < 0 THEN <<"-">> ELSE <<>>) \o NatToText(ip) \o frac

NaN == [nan |-> TRUE, v |-> 0]

Num(x) == [nan |-> FALSE, v |-> x]

\* parseFloat: optional sign, integer digits, optional fraction; the longest
\* numeric prefix is taken and the rest ignored; no digit at all gives NaN.
\* The value is in hundredths (texts carry at most two fraction digits).
parseFloat(s) ==
    LET neg == s # <<>> /\ Head(s) = "-"
        body == IF neg THEN Tail(s) ELSE s
        ip == LeadDigits(body)
        rest == SubSeq(body, ip + 1, Len(body))
        hasDot == rest # <<>> /\ Head(rest) = "."
        fs == IF hasDot THEN Tail(rest) ELSE <<>>
        fp == LeadDigits(fs)
        fv == IF fp = 0 THEN 0
              ELSE IF fp = 1 THEN 10 * DigitVal(fs[1])
              ELSE 10 * DigitVal(fs[1]) + DigitVal(fs[2])
        mag == 100 * DigitsValue(body, ip) + fv
    IN IF ip = 0 /\ fp = 0 THEN NaN
       ELSE Num(IF neg THEN -mag ELSE mag)

\* A query parameter: absent, or present with a text
Absent == [given |-> FALSE, text |-> <<>>]

Text(s) == [given |-> TRUE, text |-> s]

\* c.req.query(name) || ''
QueryOrEmpty(p) == IF p.given THEN p.text ELSE <<>>

-----------------------------------------------------------------------------
(* Weight vectors *)

DEFAULT_WEIGHTS == <<25, 20, 20, 20, 15>>

\* A weight vector num/den with den > 0; den is 100 while nothing was divided
Vec(v) == [num |-> v, den |-> 100]

Over(v, s) == IF s > 0 THEN [num |-> v, den |-> s]
              ELSE [num |-> [k \in Cat |-> -v[k]], den |-> -s]

\* The two vectors hold the same five numbers (what comparing their
\* JSON.stringify texts decides)
SameVec(a, b) == \A k \in Cat : a.num[k] * b.den = b.num[k] * a.den

SumsToOne(w) == Sum5(w.num) = w.den

\* A fallback that takes the default for NaN only
OrDefaultKeepingZero(p, d) == IF p.nan THEN d ELSE p.v

\* x ?? d: no fallback for a number, NaN included (NaN counts as 0 here)
OrDefaultNullish(p, d) == p.v

\* x || d on a parsed number: NaN and 0 are falsy
OrDefault(p, d) == IF p.nan \/ p.v = 0 THEN d ELSE p.v

\* customWeights as parsed from the query, before normalization
ParseWeights(q) ==
    [k \in Cat |-> OrDefault(parseFloat(QueryOrEmpty(q[k])), defaultWeights[k])]

\* A resolution that leaves the weights as parsed
NormalizeInPlaceSkipping(cwts) ==
    [w |-> Vec(cwts), divided |-> FALSE, divisor |-> Sum5(cwts)]

\* Normalization in place: divide by the total when it is positive
NormalizeInPlace(cwts) ==
    LET totalWeight == Sum5(cwts)
    IN IF totalWeight > 0
       THEN [w |-> Over(cwts, totalWeight), divided |-> TRUE, divisor |-> totalWeight]
       ELSE [w |-> Vec(cwts), divided |-> FALSE, divisor |-> totalWeight]

\* Weight resolution of GET /scores/:areaId
ResolveWeights(q) == NormalizeInPlace(ParseWeights(q))

usingCustomWeights(w) == ~SameVec(w, Vec(defaultWeights))

-----------------------------------------------------------------------------
(* Weighted aggregation *)

\* Weighted sum of the sub-scores as a numerator over w.den
WeightedNum(s, w) == s[1] * w.num[1] + s[2] * w.num[2] + s[3] * w.num[3]
                     + s[4] * w.num[4] + s[5] * w.num[5]

\* Server helper: Math.round(total * 10) / 10, in hundredths
calculateWeightedScore(s, w) == 10 * MathRound(10 * WeightedNum(s, w), w.den)

\* Client: computeWeightedScore normalizes the weights itself
computeWeightedScore(subscores, weights) ==
    LET totalWeight == Sum5(weights)
        normalizedWeights == IF totalWeight > 0 THEN Over(weights, totalWeight)
                             ELSE Vec(weights)
    IN 10 * MathRound(10 * WeightedNum(subscores, normalizedWeights),
                      normalizedWeights.den)

\* Client utility of lib/api.ts: no normalization
calculateWeightedScoreClient(s, weights) ==
    10 * MathRound(10 * WeightedNum(s, Vec(weights)), 100)

\* Client: normalizeWeights
normalizeWeights(weights) ==
    LET sum == Sum5(weights)
    IN IF sum = 0
       THEN [w |-> Vec(DEFAULT_WEIGHTS), divided |-> FALSE, divisor |-> sum]
       ELSE [w |-> Over(weights, sum), divided |-> TRUE, divisor |-> sum]

\* The w_* parameters getAreaScores appends for a weight vector
WeightParams(weights) == [k \in Cat |-> Text(NumToString(weights[k]))]

-----------------------------------------------------------------------------
(* The scoring core applied to bounded inputs *)

WeightValues == {-5, 0} \cup {5 * k : k \in 3..MaxWeightStep}

\* Texts a caller can put in a w_* parameter besides what the client sends
RawParams == {Absent, Text(<<"a", "b", "c">>), Text(<<"0">>),
              Text(<<"0", ".", "5">>), Text(<<"-", "0", ".", "2">>),
              Text(<<"0", ".", "3", "x">>)}

SubVectors == {<<80, 60, 90, 70, 50>>, <<0, 0, 0, 0, 0>>, <<-1, 0, 0, 0, 0>>,
               <<1, 0, 0, 0, 0>>, <<150, -20, 100, 0, 3>>}

NoVec == [w |-> Vec(<<0, 0, 0, 0, 0>>), divided |-> FALSE, divisor |-> 0]

NoSrv == [done |-> FALSE, parsed |-> <<0, 0, 0, 0, 0>>, res |-> NoVec,
          custom |-> FALSE, total |-> 0]

NoCli == [fn |-> "none", total |-> 0, res |-> NoVec]

\* No API traffic in the core specification
NoRequest == [path |-> "", route |-> "none", areaId |-> "", asOf |-> 0,
              w |-> [k \in Cat |-> Absent], areas |-> Absent, limit |-> Absent]

NoResponse == [status |-> 0, code |-> "none"]

ApiIdle == /\ scores = {}
           /\ request = NoRequest
           /\ response = NoResponse
           /\ dbReads = 0
           /\ defaultWeights = DEFAULT_WEIGHTS

NoScaled == [done |-> FALSE, num |-> 0, den |-> 1, divided |-> FALSE, divisor |-> 0]

NoBands == [done |-> FALSE, table |-> <<0, 0, 0, 0, 0>>, quantile |-> 0, top |-> 0,
            areas |-> 0, label |-> "", color |-> ""]

FavClients == 1..MaxFavClients

NoFavReq == [pc |-> "idle", kind |-> "none", zone_id |-> "", existing |-> 0,
             last_row_id |-> 0, found |-> "none", status |-> 0, action |-> "none"]

\* An empty favorites table and no request
FavIdle == /\ favorites = {}
           /\ nextId = 1
           /\ favReq = [p \in FavClients |-> NoFavReq]
           /\ favStarted = 0

RateClients == 1..MaxRateClients

NoRateReq == [pc |-> "idle", count |-> 0, status |-> 0]

\* No counter in the KV store and no request
RateIdle == /\ kv = Absent
            /\ rateReq = [p \in RateClients |-> NoRateReq]
            /\ passed = 0

CacheCallers == 1..MaxCacheCallers

CacheKeys == {"areas"}

\* private cacheTimeout = 5 * 60 * 1000, in minutes
DefaultCacheTimeout == 5

NoEntry == [has |-> FALSE, data |-> 0, timestamp |-> 0]

\* The data of an entry, for a call that no longer needs its timestamp
DataOf(entry) == [has |-> entry.has, data |-> entry.data]

NoCall == [pc |-> "idle", key |-> "", cached |-> DataOf(NoEntry)]

NoReturn == [outcome |-> "none", key |-> "", sent |-> FALSE, age |-> 0, timeout |-> 0,
             cached |-> DataOf(NoEntry), seen |-> DataOf(NoEntry), kept |-> TRUE,
             result |-> 0]

\* A new InvestMTLAPI: an empty Map
CacheIdle == /\ cache = [k \in CacheKeys |-> NoEntry]
             /\ clock = 0
             /\ cacheTimeout = DefaultCacheTimeout
             /\ calls = [p \in CacheCallers |-> NoCall]
             /\ returned = NoReturn

NoAuthEvent == [kind |-> "none", ok |-> FALSE, tok |-> 0, before |-> 0]

\* AuthProvider before its first effect: useState(null), useState(true)
AuthIdle == /\ user = FALSE
            /\ token = 0
            /\ storedToken = 0
            /\ storedUser = FALSE
            /\ isLoading = TRUE
            /\ authCalls = {}
            /\ issued = 0
            /\ loginTokens = {}
            /\ authEvent = NoAuthEvent

NoDrawer == [rendered |-> FALSE, before |-> <<>>, sortedAreas |-> <<>>]

NoAppEvent == [kind |-> "none", area |-> [id |-> 0, s_total |-> 0], before |-> <<>>]

\* App as mounted: useState([]), useState(false)
AppIdle == /\ comparedAreas = <<>>
           /\ showCompareDrawer = FALSE
           /\ drawer = NoDrawer
           /\ appEvent = NoAppEvent

SideIdle == /\ FavIdle
            /\ RateIdle
            /\ CacheIdle
            /\ AuthIdle
            /\ AppIdle

\* No library call in the core and API specifications
LibIdle == /\ values = <<>>
           /\ newValue = 0
           /\ thresholds = <<0, 0, 0, 0, 0>>
           /\ scaled = NoScaled
           /\ bands = NoBands

\* The client holds a weight vector and sends it with getAreaScores
InitClient == /\ cw \in [Cat -> WeightValues]
              /\ wq = WeightParams(cw)
              /\ fromClient = TRUE

\* Any other caller writes the query itself
InitRaw == /\ wq \in [Cat -> RawParams]
           /\ cw = <<0, 0, 0, 0, 0>>
           /\ fromClient = FALSE

InitCore == /\ (InitClient \/ InitRaw)
            /\ sub \in SubVectors
            /\ srv = NoSrv
            /\ cli = NoCli
            /\ ApiIdle
            /\ LibIdle
            /\ SideIdle

\* Server path: weight resolution of GET /scores/:areaId, then the helper
ServerScore ==
    /\ ~srv.done
    /\ LET r == ResolveWeights(wq)
       IN srv' = [done |-> TRUE, parsed |-> ParseWeights(wq), res |-> r,
                  custom |-> usingCustomWeights(r.w),
                  total |-> calculateWeightedScore(sub, r.w)]
    /\ UNCHANGED <<wq, cw, fromClient, sub, cli>>
    /\ UNCHANGED apiVars
    /\ UNCHANGED libVars
    /\ UNCHANGED sideVars

ClientCompute ==
    /\ fromClient
    /\ cli.fn # "computeWeightedScore"
    /\ cli' = [fn |-> "computeWeightedScore",
               total |-> computeWeightedScore(sub, cw), res |-> NoVec]
    /\ UNCHANGED <<wq, cw, fromClient, sub, srv>>
    /\ UNCHANGED apiVars
    /\ UNCHANGED libVars
    /\ UNCHANGED sideVars

ClientCalculate ==
    /\ fromClient
    /\ cli.fn # "calculateWeightedScore"
    /\ cli' = [fn |-> "calculateWeightedScore",
               total |-> calculateWeightedScoreClient(sub, cw), res |-> NoVec]
    /\ UNCHANGED <<wq, cw, fromClient, sub, srv>>
    /\ UNCHANGED apiVars
    /\ UNCHANGED libVars
    /\ UNCHANGED sideVars

ClientNormalize ==
    /\ fromClient
    /\ cli.fn # "normalizeWeights"
    /\ cli' = [fn |-> "normalizeWeights", total |-> 0, res |-> normalizeWeights(cw)]
    /\ UNCHANGED <<wq, cw, fromClient, sub, srv>>
    /\ UNCHANGED apiVars
    /\ UNCHANGED libVars
    /\ UNCHANGED sideVars

NextCore == ServerScore \/ ClientCompute \/ ClientCalculate \/ ClientNormalize

SpecCore == InitCore /\ [][NextCore]_vars

-----------------------------------------------------------------------------
(* Properties of the scoring core (checked under SpecCore) *)

\* The number the caller put in parameter k, as parseFloat reads it
Supplied(k) == parseFloat(QueryOrEmpty(wq[k]))

SuppliedNonNegative == \A k \in Cat : ~Supplied(k).nan /\ Supplied(k).v >= 0

SuppliedAllZeroOrMissing ==
    \A k \in Cat : ~wq[k].given \/ (~Supplied(k).nan /\ Supplied(k).v = 0)

\* r tenths is n/d points rounded to one decimal, halves toward +infinity
IsTenthHalfUp(r, n, d) ==
    /\ 20 * n - d < 2 * d * r
    /\ 2 * d * r <= 20 * n + d

\* r tenths is n/d points rounded to one decimal, halves away from zero
IsTenthHalfAway(r, n, d) ==
    IF n >= 0 THEN IsTenthHalfUp(r, n, d)
    ELSE /\ 20 * n - d <= 2 * d * r
         /\ 2 * d * r < 20 * n + d

SumProduct(s, n) == s[1] * n[1] + s[2] * n[2] + s[3] * n[3] + s[4] * n[4] + s[5] * n[5]

\* C1 (as claimed): the server path and the client path give the same total
\* for the same sub-scores and the same caller-supplied weight vector of
\* non-negative weights, vectors with zero components and the all-zero
\* vector included.
C1_ServerEqualsClient ==
    (srv.done /\ fromClient /\ cli.fn = "computeWeightedScore"
         /\ \A k \in Cat : cw[k] >= 0)
        => srv.total = cli.total

\* C2: for a supplied weight vector with five non-negative components that
\* are not all zero, the server's resolution and the client's
\* normalizeWeights both return a vector whose components sum to 1.
C2_WeightsSumToOne ==
    /\ (srv.done /\ SuppliedNonNegative /\ ~SuppliedAllZeroOrMissing)
           => SumsToOne(srv.res.w)
    /\ (cli.fn = "normalizeWeights" /\ (\A k \in Cat : cw[k] >= 0)
            /\ (\E k \in Cat : cw[k] > 0))
           => SumsToOne(cli.res.w)

C2_Witness ==
    /\ srv.done /\ cli.fn = "normalizeWeights"
    /\ SuppliedNonNegative /\ ~SuppliedAllZeroOrMissing
    /\ \E k \in Cat : cw[k] = 0
    /\ srv.res.divisor # 100 /\ cli.res.divisor # 100
    /\ cli.res.divisor # srv.res.divisor

\* C3 (as claimed): with all five weight inputs zero or missing the resolver
\* returns exactly the default vector and performs no division by the sum.
C3_DefaultWithoutDivision ==
    /\ (srv.done /\ SuppliedAllZeroOrMissing)
           => (srv.res.w = Vec(DEFAULT_WEIGHTS) /\ ~srv.res.divided)
    /\ (cli.fn = "normalizeWeights" /\ (\A k \in Cat : cw[k] = 0))
           => (cli.res.w = Vec(DEFAULT_WEIGHTS) /\ ~cli.res.divided)

\* C3 (amended): with all five weight inputs zero or missing the resolver
\* returns exactly the default vector and never divides by zero: the client's
\* normalizeWeights performs no division, the server divides by the sum of
\* the default vector, which is 1.
C3_DefaultFallback ==
    /\ (srv.done /\ SuppliedAllZeroOrMissing)
           => /\ srv.res.w = Vec(DEFAULT_WEIGHTS)
              /\ srv.res.divided /\ srv.res.divisor = 100
    /\ (cli.fn = "normalizeWeights" /\ (\A k \in Cat : cw[k] = 0))
           => (cli.res.w = Vec(DEFAULT_WEIGHTS) /\ ~cli.res.divided)

C3_Witness ==
    /\ srv.done /\ cli.fn = "normalizeWeights"
    /\ fromClient /\ \A k \in Cat : cw[k] = 0
    /\ srv.res.w = Vec(DEFAULT_WEIGHTS)

\* C4 (as claimed): every weight component that is absent or non-positive is
\* replaced by the default component before normalization and every
\* positive component is kept as supplied.
C4_NonPositiveReplaced ==
    srv.done =>
        \A k \in Cat :
            srv.parsed[k] = IF Supplied(k).nan \/ Supplied(k).v <= 0
                            THEN DEFAULT_WEIGHTS[k] ELSE Supplied(k).v

\* C6 (as claimed): the aggregator returns the weighted sum rounded to one
\* decimal with halves away from zero, for every sub-score vector (negative
\* and out-of-range values included) under a non-negative weight vector.
C6_RoundHalfAwayFromZero ==
    (srv.done /\ \A k \in Cat : srv.res.w.num[k] >= 0) =>
        /\ srv.total % 10 = 0
        /\ IsTenthHalfAway(srv.total \div 10, SumProduct(sub, srv.res.w.num),
                           srv.res.w.den)

\* C6 (amended): the aggregator returns the weighted sum of the five
\* sub-scores, unclamped, rounded to the nearest tenth with halves rounded
\* toward +infinity (Math.round), which is half-away-from-zero for
\* non-negative sums only; {80, 60, 90, 70, 50} with the default weights
\* gives 71.5.
C6_RoundHalfUp ==
    /\ srv.done =>
        /\ srv.total % 10 = 0
        /\ IsTenthHalfUp(srv.total \div 10, SumProduct(sub, srv.res.w.num),
                         srv.res.w.den)
        /\ (sub = <<80, 60, 90, 70, 50>> /\ srv.res.w = Vec(DEFAULT_WEIGHTS))
               => srv.total = 7150
    /\ cli.fn = "computeWeightedScore" =>
        /\ cli.total % 10 = 0
        /\ IsTenthHalfUp(cli.total \div 10, SumProduct(sub, cw),
                         IF Sum5(cw) > 0 THEN Sum5(cw) ELSE 100)
        /\ (sub = <<80, 60, 90, 70, 50>> /\ cw = DEFAULT_WEIGHTS)
               => cli.total = 7150
    /\ cli.fn = "calculateWeightedScore" =>
        /\ cli.total % 10 = 0
        /\ IsTenthHalfUp(cli.total \div 10, SumProduct(sub, cw), 100)
        /\ (sub = <<80, 60, 90, 70, 50>> /\ cw = DEFAULT_WEIGHTS)
               => cli.total = 7150

\* A negative sum that lies exactly on a half: -0.25 becomes -0.2
C6_Witness ==
    /\ srv.done /\ sub = <<-1, 0, 0, 0, 0>>
    /\ srv.res.w = Vec(DEFAULT_WEIGHTS)
    /\ srv.total = -20

-----------------------------------------------------------------------------
(* Score repository *)

\* The areas table, in ascending order of id
AreaList == <<"griffintown", "plateau">>

AreaIds == {AreaList[i] : i \in 1..Len(AreaList)}

IdRank(id) == CHOOSE i \in 1..Len(AreaList) : AreaList[i] = id

\* Ids a request can name: the areas and one id that matches no area
RequestIds == AreaIds \cup {"unknown"}

\* Sub-score vectors the ingestion writes
SnapshotVectors == {<<80, 60, 90, 70, 50>>, <<47, 60, 90, 70, 50>>, <<0, 0, 0, 0, 0>>}

Zero5 == <<0, 0, 0, 0, 0>>

\* UPDATE scores SET s_total = the weighted average, not rounded (hundredths)
PrecomputedTotal(v) == SumProduct(v, DEFAULT_WEIGHTS)

\* INSERT OR REPLACE INTO scores under UNIQUE(area_id, as_of)
InsertOrReplace(table, a, d, v) ==
    {r \in table : ~(r.area_id = a /\ r.as_of = d)}
        \cup {[area_id |-> a, as_of |-> d, s |-> v, s_total |-> PrecomputedTotal(v)]}

\* asOf query parameter: 0 stands for an absent (or empty) parameter
NoAsOf == 0

AsOfParams == 0..MaxDate

\* A selection that takes the requested ids themselves instead of the areas
\* they match
JoinedRowsEveryId(table, ids, asOf) ==
    LET scored == {[id |-> r.area_id, has |-> TRUE, as_of |-> r.as_of,
                    s |-> r.s, s_total |-> r.s_total] :
                      r \in {x \in table : x.area_id \in ids}}
        nulls == {[id |-> a, has |-> FALSE, as_of |-> 0, s |-> <<0, 0, 0, 0, 0>>,
                   s_total |-> 0] :
                      a \in {x \in ids : \A r \in table : r.area_id # x}}
    IN IF asOf # 0 THEN {r \in scored : r.as_of <= asOf}
       ELSE scored \cup nulls

\* FROM areas a LEFT JOIN scores s ON a.id = s.area_id WHERE a.id IN ids
\* [AND s.as_of <= asOf]; an area without scores gives one row of NULLs,
\* which the as_of filter removes
JoinedRows(table, ids, asOf) ==
    LET scored == {[id |-> r.area_id, has |-> TRUE, as_of |-> r.as_of,
                    s |-> r.s, s_total |-> r.s_total] :
                      r \in {x \in table : x.area_id \in ids /\ x.area_id \in AreaIds}}
        nulls == {[id |-> a, has |-> FALSE, as_of |-> 0, s |-> Zero5, s_total |-> 0] :
                      a \in {x \in AreaIds \cap ids : \A r \in table : r.area_id # x}}
    IN IF asOf # NoAsOf THEN {r \in scored : r.as_of <= asOf}
       ELSE scored \cup nulls

\* ORDER BY s.s_total DESC: NULL sorts last, rows of equal s_total come in
\* an order the database chooses
TotalDesc(a, b) == \/ (a.has /\ ~b.has)
                   \/ (a.has = b.has /\ a.s_total >= b.s_total)

OrderByTotalDesc(rows) ==
    {q \in [1..Cardinality(rows) -> rows] :
        \A i, j \in 1..Cardinality(rows) :
            i < j => (q[i] # q[j] /\ TotalDesc(q[i], q[j]))}

\* The first row of the ascending order instead
EarliestRow(rows) ==
    CHOOSE r \in rows : \A o \in rows : (r.has /\ ~o.has) \/ (r.has = o.has /\ r.as_of <= o.as_of)

\* ORDER BY s.as_of DESC LIMIT 1 over the rows of one area
LatestRow(rows) ==
    CHOOSE r \in rows : \A o \in rows : (r.has /\ ~o.has) \/ (r.has = o.has /\ r.as_of >= o.as_of)

-----------------------------------------------------------------------------
(* GET /scores/:areaId *)

\* Cache-Control max-age: 5 minutes with custom weights, 1 hour without
CacheTime(custom) == IF custom THEN 300 ELSE 3600

ScoreHandler(table, areaId, asOf, q) ==
    LET customWeights == ResolveWeights(q).w
        rows == JoinedRows(table, {areaId}, asOf)
        row == LatestRow(rows)
        customTotal == calculateWeightedScore(row.s, customWeights)
        custom == usingCustomWeights(customWeights)
    IN IF areaId = ""
       THEN [reads |-> 0, resp |-> [status |-> 400, code |-> "MISSING_AREA_ID"]]
       ELSE IF rows = {}
       THEN [reads |-> 1, resp |-> [status |-> 404, code |-> "NOT_FOUND"]]
       ELSE [reads |-> 1,
             resp |-> [status |-> 200, code |-> "OK",
                       area_id |-> areaId,
                       as_of |-> row.as_of,
                       scores |-> row.s,
                       total |-> IF custom THEN customTotal ELSE row.s_total,
                       weights |-> customWeights,
                       using_custom_weights |-> custom,
                       original_total |-> row.s_total,
                       calculation_method |->
                           IF custom THEN "client_weighted" ELSE "precomputed",
                       cache |-> CacheTime(custom),
                       etag |-> <<"scores", areaId, row.as_of,
                                  IF custom THEN "custom" ELSE "default">>]]

-----------------------------------------------------------------------------
(* GET /scores/compare *)

\* areaIds.join(',') in the client's compareAreas: the text is a sequence of
\* id tokens and "," separators
RECURSIVE JoinIds(_)
JoinIds(ids) == IF ids = <<>> THEN <<>>
                ELSE IF Len(ids) = 1 THEN <<ids[1]>>
                ELSE <<ids[1], ",">> \o JoinIds(Tail(ids))

\* split(',').map(id => id.trim()): an empty piece gives the empty id
RECURSIVE SplitFrom(_, _)
SplitFrom(text, piece) ==
    IF text = <<>> THEN <<piece>>
    ELSE IF Head(text) = "," THEN <<piece>> \o SplitFrom(Tail(text), "")
    ELSE SplitFrom(Tail(text), Head(text))

SplitIds(text) == SplitFrom(text, "")

\* A list that is not cut
SliceNothing(ids) == ids

\* .slice(0, 5): limit to 5 areas
Slice5(ids) == SubSeq(ids, 1, IF Len(ids) < 5 THEN Len(ids) ELSE 5)

Range(q) == {q[i] : i \in 1..Len(q)}

RECURSIVE SumSeq(_)
SumSeq(q) == IF q = <<>> THEN 0 ELSE Head(q) + SumSeq(Tail(q))

Max(S) == CHOOSE x \in S : \A y \in S : x >= y

Min(S) == CHOOSE x \in S : \A y \in S : x <= y

\* comparison: one entry per row, total: row.s_total || 0
ComparisonOf(ordered) ==
    [i \in 1..Len(ordered) |->
        [area_id |-> ordered[i].id, as_of |-> ordered[i].as_of,
         scores |-> ordered[i].s, total |-> ordered[i].s_total]]

\* Statistics over every total
StatisticsOfAll(comparison) ==
    LET allTotals == [i \in 1..Len(comparison) |-> comparison[i].total]
    IN [count |-> Len(comparison),
        highest_score |-> IF Len(allTotals) > 0 THEN Max(Range(allTotals)) ELSE 0,
        lowest_score |-> IF Len(allTotals) > 0 THEN Min(Range(allTotals)) ELSE 0,
        average_score |-> IF Len(allTotals) > 0
                          THEN 10 * MathRound(SumSeq(allTotals), 10 * Len(allTotals))
                          ELSE 0]

\* statistics over the totals that are > 0
Statistics(comparison) ==
    LET allTotals == SelectSeq([i \in 1..Len(comparison) |-> comparison[i].total],
                               LAMBDA t : t > 0)
    IN [count |-> Len(comparison),
        highest_score |-> IF Len(allTotals) > 0 THEN Max(Range(allTotals)) ELSE 0,
        lowest_score |-> IF Len(allTotals) > 0 THEN Min(Range(allTotals)) ELSE 0,
        average_score |-> IF Len(allTotals) > 0
                          THEN 10 * MathRound(SumSeq(allTotals), 10 * Len(allTotals))
                          ELSE 0]

\* The set of outcomes of the handler: one per order the database may return
CompareHandler(table, areas, asOf) ==
    LET idsArray == Slice5(SplitIds(areas.text))
        rows == JoinedRows(table, Range(idsArray), asOf)
    IN IF ~areas.given \/ areas.text = <<>>
       THEN {[reads |-> 0, resp |-> [status |-> 400, code |-> "MISSING_AREA_IDS"]]}
       ELSE IF Len(idsArray) = 0
       THEN {[reads |-> 0, resp |-> [status |-> 400, code |-> "INVALID_AREA_IDS"]]}
       ELSE {[reads |-> 1,
              resp |-> [status |-> 200, code |-> "OK",
                        comparison |-> ComparisonOf(ordered),
                        statistics |-> Statistics(ComparisonOf(ordered)),
                        requested_areas |-> Len(idsArray),
                        found_areas |-> Len(ordered),
                        cache |-> 1800,
                        etag |-> <<"compare", idsArray, asOf>>]] :
                 ordered \in OrderByTotalDesc(rows)}

-----------------------------------------------------------------------------
(* GET /scores/top *)

\* parseInt: optional sign and leading digits; NaN without a digit
parseInt(s) ==
    LET neg == s # <<>> /\ Head(s) = "-"
        body == IF neg THEN Tail(s) ELSE s
        ip == LeadDigits(body)
    IN IF ip = 0 THEN NaN
       ELSE Num(IF neg THEN -DigitsValue(body, ip) ELSE DigitsValue(body, ip))

\* Math.min(parseInt(c.req.query('limit') || '10'), 50)
TopLimit(p) ==
    LET n == parseInt(IF p.given /\ p.text # <<>> THEN p.text ELSE <<"1", "0">>)
    IN IF n.nan THEN NaN ELSE Num(IF n.v < 50 THEN n.v ELSE 50)

\* A classification whose breakpoints belong to the band below
StaticQuantileStrict(total) == IF total > 8000 THEN 5
                               ELSE IF total > 6000 THEN 4
                               ELSE IF total > 4000 THEN 3
                               ELSE IF total > 2000 THEN 2
                               ELSE 1

\* CASE WHEN s_total >= 80 THEN 5 ... ELSE 1 END
StaticQuantile(total) == IF total >= 8000 THEN 5
                         ELSE IF total >= 6000 THEN 4
                         ELSE IF total >= 4000 THEN 3
                         ELSE IF total >= 2000 THEN 2
                         ELSE 1

\* LIMIT n: a negative n is no limit
Limited(ordered, n) ==
    IF n < 0 \/ n >= Len(ordered) THEN ordered ELSE SubSeq(ordered, 1, n)

\* FROM areas a LEFT JOIN scores s WHERE s.s_total IS NOT NULL [AND as_of <= ?]
TopRows(table, asOf) ==
    {[id |-> r.area_id, has |-> TRUE, as_of |-> r.as_of, s |-> r.s,
      s_total |-> r.s_total] :
        r \in {x \in table : x.area_id \in AreaIds
                             /\ (asOf = NoAsOf \/ x.as_of <= asOf)}}

\* The set of outcomes: one per order the database may return.  A limit
\* that is NaN is bound as the text 'NaN', which the database refuses.
TopHandler(table, limitParam, asOf) ==
    LET limit == TopLimit(limitParam)
    IN IF limit.nan
       THEN {[reads |-> 1, resp |-> [status |-> 500, code |-> "FETCH_ERROR"]]}
       ELSE {[reads |-> 1,
              resp |-> [status |-> 200, code |-> "OK",
                        top_areas |->
                            [i \in 1..Len(Limited(ordered, limit.v)) |->
                                [area_id |-> ordered[i].id,
                                 score |-> ordered[i].s_total,
                                 quantile |-> StaticQuantile(ordered[i].s_total),
                                 as_of |-> ordered[i].as_of]],
                        limit |-> limit.v,
                        returned |-> Len(Limited(ordered, limit.v)),
                        cache |-> 7200,
                        etag |-> <<"top-areas", limit.v, asOf>>]] :
                 ordered \in OrderByTotalDesc(TopRows(table, asOf))}

-----------------------------------------------------------------------------
(* The API over the repository *)

NoWeights == [k \in Cat |-> Absent]

\* Weight vectors the client sends with getAreaScores
ClientVectors == {DEFAULT_WEIGHTS, <<50, 40, 40, 40, 30>>, <<0, 20, 20, 20, 15>>,
                  <<0, 0, 0, 0, 0>>, <<40, 15, 15, 15, 15>>}

\* w_* parameters of a score request: none, a client vector, or one
\* hand-written w_growth
ScoreQueries == {NoWeights}
                \cup {WeightParams(v) : v \in ClientVectors}
                \cup {[NoWeights EXCEPT ![1] = p] : p \in RawParams}

CompareQueries == {NoWeights, WeightParams(<<40, 15, 15, 15, 15>>)}

\* Id lists of comparison requests: up to two ids, and for each length
\* 5..MaxIds the lists made of one id repeated and a different last id
IdLists == {<<>>}
           \cup {<<x>> : x \in RequestIds}
           \cup {<<x, y>> : x \in RequestIds, y \in RequestIds}
           \cup {[i \in 1..n |-> IF i < n THEN p[1] ELSE p[2]] :
                    n \in 5..MaxIds, p \in RequestIds \X RequestIds}

AreasParams == {Absent} \cup {Text(JoinIds(ids)) : ids \in IdLists}

LimitParams == {Absent, Text(<<"1">>), Text(<<"2">>), Text(<<"-", "1">>),
                Text(<<"a", "b", "c">>), Text(<<"6", "0">>)}

Init == /\ wq = NoWeights
        /\ cw = Zero5
        /\ fromClient = FALSE
        /\ sub = Zero5
        /\ srv = NoSrv
        /\ cli = NoCli
        /\ ApiIdle
        /\ LibIdle
        /\ SideIdle

\* The ingestion writes the snapshot of one area for one date.  A handler
\* issues a single read, so a write falls before or after a request, never
\* inside it: writes are taken between requests.
InsertScores ==
    /\ response = NoResponse
    /\ \E a \in AreaIds, d \in 1..MaxDate, v \in SnapshotVectors :
        /\ Cardinality(InsertOrReplace(scores, a, d, v)) <= MaxRows
        /\ scores' = InsertOrReplace(scores, a, d, v)
        /\ UNCHANGED <<request, response, dbReads, defaultWeights>>
        /\ UNCHANGED coreVars
        /\ UNCHANGED libVars
        /\ UNCHANGED sideVars

\* The routes of scoresRoutes in the order of their registration; request.route
\* names the handler that answers
Routes == <<[param |-> TRUE, name |-> "areaId", handler |-> "score"],
            [param |-> FALSE, name |-> "compare", handler |-> "compare"],
            [param |-> FALSE, name |-> "top", handler |-> "top"]>>

\* A pattern of one segment matches a path of one segment when it is a
\* parameter or when it is that segment
Matches(pattern, segment) == pattern.param \/ pattern.name = segment

\* The router runs the matching handlers in the order of registration and
\* the first one that returns a response ends the request; every handler
\* of scoresRoutes returns one
Dispatch(segment) ==
    LET first == CHOOSE i \in 1..Len(Routes) :
                     /\ Matches(Routes[i], segment)
                     /\ \A j \in 1..(i - 1) : ~Matches(Routes[j], segment)
    IN Routes[first].handler

\* A handler that builds customWeights in the DEFAULT_WEIGHTS object itself
GetScoreInDefaults ==
    /\ response = NoResponse
    /\ \E areaId \in RequestIds, asOf \in AsOfParams, q \in ScoreQueries :
        LET out == ScoreHandler(scores, areaId, asOf, q)
        IN /\ request' = [NoRequest EXCEPT !.path = areaId, !.route = "score",
                                           !.areaId = areaId,
                                           !.asOf = asOf, !.w = q]
           /\ response' = out.resp
           /\ dbReads' = out.reads
           /\ defaultWeights' = ParseWeights(q)
           /\ UNCHANGED scores
           /\ UNCHANGED coreVars
           /\ UNCHANGED libVars
           /\ UNCHANGED sideVars

\* Requests are answered one at a time: a handler starts when the previous
\* response has left.  GET /scores/<areaId>:
GetScore ==
    /\ response = NoResponse
    /\ \E areaId \in RequestIds, asOf \in AsOfParams, q \in ScoreQueries :
        LET out == ScoreHandler(scores, areaId, asOf, q)
        IN /\ request' = [NoRequest EXCEPT !.path = areaId, !.route = "score",
                                           !.areaId = areaId,
                                           !.asOf = asOf, !.w = q]
           /\ response' = out.resp
           /\ dbReads' = out.reads
           /\ UNCHANGED <<scores, defaultWeights>>
           /\ UNCHANGED coreVars
           /\ UNCHANGED libVars
           /\ UNCHANGED sideVars

\* The handler registered on '/compare', given a request
GetCompare ==
    /\ response = NoResponse
    /\ \E areas \in AreasParams, asOf \in AsOfParams, q \in CompareQueries :
        \E out \in CompareHandler(scores, areas, asOf) :
           /\ request' = [NoRequest EXCEPT !.route = "compare", !.areas = areas,
                                           !.asOf = asOf, !.w = q]
           /\ response' = out.resp
           /\ dbReads' = out.reads
           /\ UNCHANGED <<scores, defaultWeights>>
           /\ UNCHANGED coreVars
           /\ UNCHANGED libVars
           /\ UNCHANGED sideVars

\* The handler registered on '/top', given a request
GetTop ==
    /\ response = NoResponse
    /\ \E limit \in LimitParams, asOf \in AsOfParams :
        \E out \in TopHandler(scores, limit, asOf) :
           /\ request' = [NoRequest EXCEPT !.route = "top", !.limit = limit,
                                           !.asOf = asOf]
           /\ response' = out.resp
           /\ dbReads' = out.reads
           /\ UNCHANGED <<scores, defaultWeights>>
           /\ UNCHANGED coreVars
           /\ UNCHANGED libVars
           /\ UNCHANGED sideVars

\* Query strings sent to the two one-segment paths that are not area ids
PathSegments == {"compare", "top"}

PathAreasParams == {Absent, Text(<<"plateau">>)}

PathLimitParams == {Absent, Text(<<"2">>)}

\* GET /scores/compare?areas=.. and GET /scores/top?limit=.. as sent by the
\* client (compareAreas, getTopAreas) and dispatched by the router
GetByPath ==
    /\ response = NoResponse
    /\ \E segment \in PathSegments, asOf \in AsOfParams,
          areas \in PathAreasParams, limit \in PathLimitParams :
        LET handler == Dispatch(segment)
            outcomes == IF handler = "score"
                        THEN {ScoreHandler(scores, segment, asOf, NoWeights)}
                        ELSE IF handler = "compare"
                        THEN CompareHandler(scores, areas, asOf)
                        ELSE TopHandler(scores, limit, asOf)
        IN \E out \in outcomes :
           /\ request' = [NoRequest EXCEPT !.path = segment, !.route = handler,
                                           !.areaId = IF handler = "score"
                                                      THEN segment ELSE "",
                                           !.asOf = asOf, !.areas = areas,
                                           !.limit = limit]
           /\ response' = out.resp
           /\ dbReads' = out.reads
           /\ UNCHANGED <<scores, defaultWeights>>
           /\ UNCHANGED coreVars
           /\ UNCHANGED libVars
           /\ UNCHANGED sideVars

\* return c.json(...): the response leaves and nothing of the request is kept
Respond ==
    /\ response # NoResponse
    /\ request' = NoRequest
    /\ response' = NoResponse
    /\ dbReads' = 0
    /\ UNCHANGED <<scores, defaultWeights>>
    /\ UNCHANGED coreVars
    /\ UNCHANGED libVars
    /\ UNCHANGED sideVars

Next == InsertScores \/ GetScore \/ GetCompare \/ GetTop \/ GetByPath \/ Respond

Spec == Init /\ [][Next]_vars

-----------------------------------------------------------------------------
(* The client scoring library and the classifications.  Values and totals   *)
(* are integer hundredths; a scaled score is a rational num/den of points.  *)

\* [...values].sort((a, b) => a - b)
RECURSIVE SortAscending(_)
SortAscending(q) ==
    IF q = <<>> THEN <<>>
    ELSE LET i == CHOOSE k \in 1..Len(q) : \A j \in 1..Len(q) : q[k] <= q[j]
         IN <<q[i]>> \o SortAscending(SubSeq(q, 1, i - 1) \o SubSeq(q, i + 1, Len(q)))

\* sorted[Math.floor(sorted.length * percent / 100)], the array counted from 0
AtPercentile(sorted, percent) == sorted[((Len(sorted) * percent) \div 100) + 1]

\* q3 - q1 of a population that is not empty
InterQuartileRange(population) ==
    AtPercentile(SortAscending(population), 75) - AtPercentile(SortAscending(population), 25)

\* A score that is left as computed
ClampNothing(x) == x

\* Math.max(0, Math.min(100, scaled)) of the rational x, x.den > 0
Clamp(x) == IF x.num > 100 * x.den THEN [num |-> 100, den |-> 1]
            ELSE IF x.num < 0 THEN [num |-> 0, den |-> 1]
            ELSE x

robustScale(population, v) ==
    LET sorted == SortAscending(population)
        median == AtPercentile(sorted, 50)
        iqr == InterQuartileRange(population)
        clamped == Clamp([num |-> 25 * (v - median) + 50 * iqr, den |-> iqr])
    IN IF Len(population) = 0
       THEN [done |-> TRUE, num |-> 50, den |-> 1, divided |-> FALSE, divisor |-> 0]
       ELSE IF iqr = 0
       THEN [done |-> TRUE, num |-> 50, den |-> 1, divided |-> FALSE, divisor |-> iqr]
       ELSE [done |-> TRUE, num |-> clamped.num, den |-> clamped.den,
             divided |-> TRUE, divisor |-> iqr]

\* The table calculateQuantiles returns for an empty list
DefaultThresholds == <<0, 2500, 5000, 7500, 10000>>

\* Thresholds read from the list as given
calculateQuantilesUnsorted(list) ==
    IF Len(list) = 0 THEN DefaultThresholds
    ELSE <<AtPercentile(list, 20), AtPercentile(list, 40),
           AtPercentile(list, 60), AtPercentile(list, 80),
           AtPercentile(list, 95)>>

calculateQuantiles(list) ==
    LET sorted == SortAscending(list)
    IN IF Len(list) = 0 THEN DefaultThresholds
       ELSE <<AtPercentile(sorted, 20), AtPercentile(sorted, 40),
              AtPercentile(sorted, 60), AtPercentile(sorted, 80),
              AtPercentile(sorted, 95)>>

\* A classification whose comparisons are turned around
scoreToQuantileReversed(score, quantileThresholds) ==
    IF score <= quantileThresholds[5] THEN 5
    ELSE IF score <= quantileThresholds[4] THEN 4
    ELSE IF score <= quantileThresholds[3] THEN 3
    ELSE IF score <= quantileThresholds[2] THEN 2
    ELSE 1

scoreToQuantile(score, quantileThresholds) ==
    IF score >= quantileThresholds[5] THEN 5
    ELSE IF score >= quantileThresholds[4] THEN 4
    ELSE IF score >= quantileThresholds[3] THEN 3
    ELSE IF score >= quantileThresholds[2] THEN 2
    ELSE 1

\* The static breakpoints 80, 60, 40, 20 as a threshold table
StaticThresholds == <<0, 2000, 4000, 6000, 8000>>

\* The CASE of the areas listing over a LEFT JOIN row: a comparison with a
\* NULL s_total is not true, so the row falls to ELSE 1
AreasQuantile(row) == IF row.has /\ row.s_total >= 8000 THEN 5
                      ELSE IF row.has /\ row.s_total >= 6000 THEN 4
                      ELSE IF row.has /\ row.s_total >= 4000 THEN 3
                      ELSE IF row.has /\ row.s_total >= 2000 THEN 2
                      ELSE 1

getScoreColor(score) == IF score >= 8000 THEN "text-green-600"
                        ELSE IF score >= 6000 THEN "text-lime-600"
                        ELSE IF score >= 4000 THEN "text-yellow-600"
                        ELSE IF score >= 2000 THEN "text-orange-600"
                        ELSE "text-red-600"

getScoreLabel(score) == IF score >= 8000 THEN "Excellent"
                        ELSE IF score >= 6000 THEN "Very Good"
                        ELSE IF score >= 4000 THEN "Good"
                        ELSE IF score >= 2000 THEN "Fair"
                        ELSE "Poor"

\* Values of a reference population and of a list of scores
PopulationValues == {2000, 7150, 7999, 8000}

Populations == UNION {[1..n -> PopulationValues] : n \in 0..MaxPopulation}

\* Totals and raw values that are scaled and classified
Totals == {-20, 0, 1999, 2000, 3999, 4000, 5999, 6000, 7150, 7999, 8000, 10000}

InitLib == /\ values \in Populations
           /\ newValue \in Totals
           /\ thresholds = StaticThresholds
           /\ scaled = NoScaled
           /\ bands = NoBands
           /\ wq = [k \in Cat |-> Absent]
           /\ cw = <<0, 0, 0, 0, 0>>
           /\ fromClient = FALSE
           /\ sub = <<0, 0, 0, 0, 0>>
           /\ srv = NoSrv
           /\ cli = NoCli
           /\ ApiIdle
           /\ SideIdle

RobustScale ==
    /\ ~scaled.done
    /\ scaled' = robustScale(values, newValue)
    /\ UNCHANGED <<values, newValue, thresholds, bands>>
    /\ UNCHANGED <<coreVars, apiVars>>
    /\ UNCHANGED sideVars

\* The empirical table of the list (the default table when it is empty)
CalculateQuantiles ==
    /\ ~bands.done
    /\ thresholds' = calculateQuantiles(values)
    /\ UNCHANGED <<values, newValue, scaled, bands>>
    /\ UNCHANGED <<coreVars, apiVars>>
    /\ UNCHANGED sideVars

\* The value classified by scoreToQuantile against the table in use, by the
\* two SQL CASE expressions and by the client's colour and label helpers
Classify ==
    /\ ~bands.done
    /\ bands' = [done |-> TRUE,
                 table |-> thresholds,
                 quantile |-> scoreToQuantile(newValue, thresholds),
                 top |-> StaticQuantile(newValue),
                 areas |-> AreasQuantile([has |-> TRUE, s_total |-> newValue]),
                 label |-> getScoreLabel(newValue),
                 color |-> getScoreColor(newValue)]
    /\ UNCHANGED <<values, newValue, thresholds, scaled>>
    /\ UNCHANGED <<coreVars, apiVars>>
    /\ UNCHANGED sideVars

NextLib == RobustScale \/ CalculateQuantiles \/ Classify

SpecLib == InitLib /\ [][NextLib]_vars

-----------------------------------------------------------------------------
(* Properties of the API (checked under Spec) *)

ScoreOk == request.route = "score" /\ response.status = 200

CompareOk == request.route = "compare" /\ response.status = 200

TopOk == request.route = "top" /\ response.status = 200

\* C5 (as claimed): using_custom_weights is true iff the weight vector the
\* caller supplied, before normalization, differs from the default vector.
C5_CustomIffSuppliedDiffers ==
    ScoreOk => (response.using_custom_weights
                    <=> ParseWeights(request.w) # DEFAULT_WEIGHTS)

\* C7 (as claimed): in every single-area and every comparison response each
\* area's total is the aggregator's result for that area's five sub-scores
\* under the request's resolved weight vector.
C7_TotalIsAggregate ==
    /\ ScoreOk =>
        /\ response.total % 10 = 0
        /\ IsTenthHalfUp(response.total \div 10,
                         SumProduct(response.scores, response.weights.num),
                         response.weights.den)
    /\ CompareOk =>
        \A i \in 1..Len(response.comparison) :
            LET e == response.comparison[i]
                w == ResolveWeights(request.w).w
            IN /\ e.total % 10 = 0
               /\ IsTenthHalfUp(e.total \div 10, SumProduct(e.scores, w.num), w.den)

\* C8 (as claimed): a comparison or top-N list is ordered by total
\* descending, ties by ascending area id.
C8_RankedWithTieBreak ==
    /\ CompareOk =>
        \A i, j \in 1..Len(response.comparison) :
            i < j => LET a == response.comparison[i]
                         b == response.comparison[j]
                     IN \/ a.total > b.total
                        \/ (a.total = b.total /\ IdRank(a.area_id) <= IdRank(b.area_id))
    /\ TopOk =>
        \A i, j \in 1..Len(response.top_areas) :
            i < j => LET a == response.top_areas[i]
                         b == response.top_areas[j]
                     IN \/ a.score > b.score
                        \/ (a.score = b.score /\ IdRank(a.area_id) <= IdRank(b.area_id))

RequestedIds == SplitIds(request.areas.text)

MoreThanFive == request.route = "compare" /\ Len(RequestedIds) > 5

\* C9 (as claimed): a comparison request naming more than 5 ids is rejected
\* with a validation error, without a repository read.
C9_MoreThanFiveRejected ==
    MoreThanFive => (response.status = 400 /\ dbReads = 0)

\* C9 (amended): a comparison request naming more than 5 ids is not
\* rejected: the ids after the fifth are dropped and the comparison of the
\* first five is read from the repository and returned.
C9_MoreThanFiveTruncated ==
    MoreThanFive =>
        /\ response.status = 200
        /\ dbReads = 1
        /\ response.requested_areas = 5
        /\ \A i \in 1..Len(response.comparison) :
               \E k \in 1..5 : response.comparison[i].area_id = RequestedIds[k]

\* The sixth id has a snapshot and is left out
C9_Witness ==
    /\ MoreThanFive
    /\ \A k \in 1..5 : RequestedIds[k] # RequestedIds[6]
    /\ \E r \in scores : r.area_id = RequestedIds[6]
    /\ response.status = 200
    /\ response.found_areas = 0

Unparsable(k) == request.w[k].given /\ parseFloat(request.w[k].text).nan

\* C10 (as claimed): a single-area request with a weight override that does
\* not parse as a number is rejected with a validation error before any
\* repository read.
C10_UnparsableWeightRejected ==
    (request.route = "score" /\ \E k \in Cat : Unparsable(k))
        => (response.status = 400 /\ dbReads = 0)

\* C10 (amended): a single-area request with a weight override that does not
\* parse as a number is not rejected: the repository is read, the outcome
\* is success or not-found, and that component takes its default weight.
C10_UnparsableWeightDefaulted ==
    (request.route = "score" /\ \E k \in Cat : Unparsable(k))
        => /\ dbReads = 1
           /\ response.status \in {200, 404}
           /\ response.status = 200 =>
                  \A k \in Cat : Unparsable(k) =>
                      /\ response.weights.num[k] = DEFAULT_WEIGHTS[k]
                      /\ response.weights.den = 100

C10_Witness ==
    /\ ScoreOk
    /\ Unparsable(1)
    /\ ~response.using_custom_weights
    /\ response.total > 0

\* The ids the comparison handler queries: the first five of the list
QueriedIds == Range(Slice5(RequestedIds))

ComparedIds == {response.comparison[i].area_id : i \in 1..Len(response.comparison)}

C12_NotInRepositoryNotFound ==
    (request.route = "score" /\ \A r \in scores : r.area_id # request.areaId)
        => (response.status = 404 /\ response.code = "NOT_FOUND")

-----------------------------------------------------------------------------
(* Properties of the library and the classifications (checked under SpecLib) *)

\* C13: for every threshold table T (static, empirical, or the default
\* table) and any two totals a > b classified against the same T,
\* scoreToQuantile(a, T) >= scoreToQuantile(b, T), and both results are
\* integers in 1..5.
C13_QuantileOrdering ==
    bands.done =>
        /\ bands.quantile \in 1..5
        /\ \A b \in Totals :
               /\ scoreToQuantile(b, bands.table) \in 1..5
               /\ newValue > b => bands.quantile >= scoreToQuantile(b, bands.table)

\* An empirical table that puts the classified total in bucket 5 and a
\* smaller total in bucket 1
C13_Witness ==
    /\ bands.done
    /\ Len(values) >= 2
    /\ bands.table = calculateQuantiles(values)
    /\ bands.table # StaticThresholds
    /\ bands.quantile = 5
    /\ \E b \in Totals : newValue > b /\ scoreToQuantile(b, bands.table) = 1

LabelBand(label) == CASE label = "Excellent" -> 5
                      [] label = "Very Good" -> 4
                      [] label = "Good" -> 3
                      [] label = "Fair" -> 2
                      [] label = "Poor" -> 1

ColorBand(color) == CASE color = "text-green-600" -> 5
                      [] color = "text-lime-600" -> 4
                      [] color = "text-yellow-600" -> 3
                      [] color = "text-orange-600" -> 2
                      [] color = "text-red-600" -> 1

\* C14: the static classification is bucket 5 iff total >= 80, 4 iff
\* 60 <= total < 80, 3 iff 40 <= total < 60, 2 iff 20 <= total < 40 and 1
\* otherwise (71.5 is bucket 4); the SQL classification of top-N, the one of
\* the areas listing and the client's label and colour bands give every
\* total the same band.
C14_StaticBands ==
    bands.done =>
        /\ bands.top = 5 <=> newValue >= 8000
        /\ bands.top = 4 <=> (6000 <= newValue /\ newValue < 8000)
        /\ bands.top = 3 <=> (4000 <= newValue /\ newValue < 6000)
        /\ bands.top = 2 <=> (2000 <= newValue /\ newValue < 4000)
        /\ bands.top = 1 <=> newValue < 2000
        /\ newValue = 7150 => bands.top = 4
        /\ bands.areas = bands.top
        /\ LabelBand(bands.label) = bands.top
        /\ ColorBand(bands.color) = bands.top

C14_Witness ==
    /\ bands.done
    /\ newValue = 7150
    /\ bands.top = 4 /\ bands.areas = 4
    /\ bands.label = "Very Good"

-----------------------------------------------------------------------------
(* Monotonicity of the aggregation (checked under SpecCore) *)

\* The sub-score vectors that raise one sub-score of s and keep the others
RaisedOnce(s) ==
    {t \in SubVectors : \E k \in Cat : /\ t[k] > s[k]
                                       /\ \A j \in Cat \ {k} : t[j] = s[j]}

\* C15 (as claimed): with the weights fixed to a resolved weight vector and
\* four of the five sub-scores fixed, increasing the remaining sub-score
\* never decreases the total the aggregator returns.
C15_AggregationMonotone ==
    /\ srv.done =>
           \A t \in RaisedOnce(sub) : calculateWeightedScore(t, srv.res.w) >= srv.total
    /\ (cli.fn = "computeWeightedScore" /\ \A k \in Cat : cw[k] >= 0) =>
           \A t \in RaisedOnce(sub) : computeWeightedScore(t, cw) >= cli.total

-----------------------------------------------------------------------------
(* Robust scaling (checked under SpecLib) *)

\* C16: for every reference population (the empty one, a single element and
\* a population whose Q3 equals Q1 included) and every newValue, robustScale
\* returns a score in [0, 100] without dividing by zero, and the score is
\* exactly 50 when the population is empty or its IQR is 0.
C16_RobustScaleBounded ==
    scaled.done =>
        /\ scaled.den > 0
        /\ 0 <= scaled.num /\ scaled.num <= 100 * scaled.den
        /\ scaled.divided => scaled.divisor # 0
        /\ (values = <<>> \/ InterQuartileRange(values) = 0)
               => (scaled.num = 50 * scaled.den /\ ~scaled.divided)
        /\ Len(values) = 1 => scaled.num = 50 * scaled.den

\* A value far below the median of a narrow population: clamped at 0
C16_Witness ==
    /\ scaled.done /\ scaled.divided
    /\ Len(values) >= 2
    /\ 25 * (newValue - AtPercentile(SortAscending(values), 50))
           + 50 * InterQuartileRange(values) < 0
    /\ scaled.num = 0

-----------------------------------------------------------------------------
(* Top-N and statistics (checked under Spec) *)

\* The limit a top-N request asks for, 10 when it gives none
RequestedLimit ==
    parseInt(IF request.limit.given /\ request.limit.text # <<>>
             THEN request.limit.text ELSE <<"1", "0">>)

\* The number of entries that are the first n of a ranking of len entries,
\* at most 50
FirstNCount(n, len) ==
    LET atLeast0 == IF n < 0 THEN 0 ELSE n
        capped == IF atLeast0 > 50 THEN 50 ELSE atLeast0
    IN IF capped > len THEN len ELSE capped

\* C17 (as claimed): a top-N request returns the first N entries of the full
\* descending ranking, N being the requested limit (10 when none is given),
\* and for every numeric value of the limit parameter the result never has
\* more entries than N nor than the cap of 50.
C17_FirstNWithinCap ==
    (request.route = "top" /\ ~RequestedLimit.nan) =>
        /\ response.status = 200
        /\ Len(response.top_areas) <= 50
        /\ \E full \in OrderByTotalDesc(TopRows(scores, request.asOf)) :
               /\ Len(response.top_areas) = FirstNCount(RequestedLimit.v, Len(full))
               /\ \A i \in 1..Len(response.top_areas) :
                      /\ response.top_areas[i].area_id = full[i].id
                      /\ response.top_areas[i].as_of = full[i].as_of
                      /\ response.top_areas[i].score = full[i].s_total

ComparedTotals == [i \in 1..Len(response.comparison) |-> response.comparison[i].total]

PositiveTotals == SelectSeq(ComparedTotals, LAMBDA t : t > 0)

\* C18 (as claimed): in a comparison response statistics.count is the number
\* of returned comparisons, highest and lowest are the maximum and the
\* minimum of their totals, and average is their mean rounded to one decimal.
C18_StatisticsOfComparisons ==
    (CompareOk /\ Len(response.comparison) > 0) =>
        /\ response.statistics.count = Len(response.comparison)
        /\ response.statistics.highest_score = Max(Range(ComparedTotals))
        /\ response.statistics.lowest_score = Min(Range(ComparedTotals))
        /\ response.statistics.average_score % 10 = 0
        /\ IsTenthHalfUp(response.statistics.average_score \div 10,
                         SumSeq(ComparedTotals), 100 * Len(ComparedTotals))

\* C18 (amended): statistics.count is the number of returned comparisons;
\* highest, lowest and average are the maximum, the minimum and the mean
\* rounded to one decimal of the totals that are greater than 0 only, and
\* all three are 0 when no returned total is greater than 0.
C18_StatisticsOfPositiveTotals ==
    CompareOk =>
        /\ response.statistics.count = Len(response.comparison)
        /\ Len(PositiveTotals) = 0 =>
               /\ response.statistics.highest_score = 0
               /\ response.statistics.lowest_score = 0
               /\ response.statistics.average_score = 0
        /\ Len(PositiveTotals) > 0 =>
               /\ response.statistics.highest_score = Max(Range(PositiveTotals))
               /\ response.statistics.lowest_score = Min(Range(PositiveTotals))
               /\ response.statistics.average_score % 10 = 0
               /\ IsTenthHalfUp(response.statistics.average_score \div 10,
                                SumSeq(PositiveTotals), 100 * Len(PositiveTotals))

\* Two comparisons, one with total 0: it is counted and left out of the rest
C18_Witness ==
    /\ CompareOk
    /\ Len(response.comparison) = 2
    /\ Len(PositiveTotals) = 1
    /\ response.statistics.count = 2
    /\ response.statistics.lowest_score = PositiveTotals[1]

-----------------------------------------------------------------------------
(* Frame and routing (checked under Spec) *)

\* What the handler that answers the pending request yields for the rows of
\* the repository and that request
Outcomes ==
    IF request.route = "score"
    THEN {ScoreHandler(scores, request.areaId, request.asOf, request.w)}
    ELSE IF request.route = "compare"
    THEN CompareHandler(scores, request.areas, request.asOf)
    ELSE TopHandler(scores, request.limit, request.asOf)

\* A step that starts or ends a request
RequestStep == request' # request \/ response' # response

C20_StaticRoutesReachTheirHandler ==
    /\ request.path = "compare" => request.route = "compare"
    /\ request.path = "top" => request.route = "top"

-----------------------------------------------------------------------------
(* Snapshots (checked under Spec) *)

\* The snapshots of area a that are not after the cutoff of the request
SnapshotsInScope(a) ==
    {r \in scores : r.area_id = a
                    /\ (request.asOf = NoAsOf \/ r.as_of <= request.asOf)}

\* The entries name pairwise distinct areas, each by its latest snapshot in scope
OnePerAreaLatest(entries) ==
    /\ \A i, j \in 1..Len(entries) : i # j => entries[i].area_id # entries[j].area_id
    /\ \A i \in 1..Len(entries) :
           \A r \in SnapshotsInScope(entries[i].area_id) : r.as_of <= entries[i].as_of

\* C21 (as claimed): in a comparison or top-N result every area appears at
\* most once, by its latest snapshot whose as_of is not after the cutoff,
\* whatever number of snapshots the area has; a comparison never returns
\* more than 5 entries.
C21_OneLatestEntryPerArea ==
    /\ CompareOk => /\ OnePerAreaLatest(response.comparison)
                    /\ Len(response.comparison) <= 5
    /\ TopOk => OnePerAreaLatest(response.top_areas)

\* C22: a single-area request returns, among the snapshots of the area, the
\* one with the greatest as_of that does not exceed the cutoff (the greatest
\* overall without a cutoff), whatever snapshots have been appended since.
C22_LatestSnapshotInScope ==
    (ScoreOk /\ SnapshotsInScope(request.areaId) # {}) =>
        \E r \in SnapshotsInScope(request.areaId) :
            /\ \A o \in SnapshotsInScope(request.areaId) : o.as_of <= r.as_of
            /\ response.as_of = r.as_of
            /\ response.scores = r.s
            /\ response.original_total = r.s_total

\* A later snapshot than the cutoff exists and the earlier one is returned
C22_Witness ==
    /\ ScoreOk
    /\ request.asOf # NoAsOf
    /\ \E r \in scores : r.area_id = request.areaId /\ r.as_of > request.asOf
    /\ \E r \in scores : r.area_id = request.areaId /\ r.as_of = response.as_of
                           /\ r.as_of <= request.asOf /\ r.s = response.scores

\* C26 (as claimed): any two responses of GET /scores/:areaId that carry the
\* same ETag carry the same total and the same weights; two requests for the
\* same area and snapshot with different custom weight vectors get
\* different ETags.
C26_SameETagSameResult ==
    (ScoreOk /\ SnapshotsInScope(request.areaId) # {}) =>
        \A q \in ScoreQueries, asOf \in AsOfParams :
            LET other == ScoreHandler(scores, request.areaId, asOf, q).resp
            IN (other.status = 200 /\ other.etag = response.etag)
                   => (other.total = response.total
                       /\ SameVec(other.weights, response.weights))

-----------------------------------------------------------------------------
(* Empirical thresholds (checked under SpecLib) *)

\* The thresholds in use were computed from the list, which is not empty
Empirical == values # <<>> /\ thresholds # StaticThresholds

\* C29: for every non-empty set of totals calculateQuantiles indexes only
\* inside the sorted array and returns thresholds that are elements of the
\* set and non-decreasing in the bucket index, so the maximum of the set is
\* classified into bucket 5.
C29_ThresholdsFromTheSet ==
    /\ Empirical =>
           /\ \A percent \in {20, 40, 60, 80, 95} :
                  ((Len(values) * percent) \div 100) + 1 \in 1..Len(values)
           /\ \A k \in 1..5 : thresholds[k] \in Range(values)
           /\ \A k \in 1..4 : thresholds[k] <= thresholds[k + 1]
           /\ scoreToQuantile(Max(Range(values)), thresholds) = 5
    /\ (Empirical /\ bands.done /\ bands.table = thresholds
            /\ newValue = Max(Range(values)))
           => bands.quantile = 5

\* The maximum of a list that is not in ascending order, classified against
\* the thresholds of that list
C29_Witness ==
    /\ Empirical
    /\ Len(values) >= 2 /\ values[1] > values[2]
    /\ thresholds[1] < thresholds[5]
    /\ bands.done /\ bands.table = thresholds
    /\ newValue = Max(Range(values))
    /\ bands.quantile = 5

----------------------------------------------------------------------------
\* The favorites routes (unnamed/part_013) over the favorites table
\* (README.md): each await of a handler is a step, so the steps of concurrent
\* requests interleave

\* c.get('user'): the authenticated user of every request
FavUser == "u1"

\* The rows of investment_zones (its street_name column)
InvestmentZones == {"rue-a"}

\* The zone_id of a request body: missing, a zone, or an unknown street
ZoneIdInputs == {"", "rue-a", "rue-x"}

\* SELECT id FROM favorites WHERE user_id = ? AND zone_id = ? (.first()):
\* the id of the row, 0 for null
SelectFavorite(rows, uid, zone) ==
    IF \E r \in rows : r.user_id = uid /\ r.zone_id = zone
    THEN (CHOOSE r \in rows : r.user_id = uid /\ r.zone_id = zone).id
    ELSE 0

\* UNIQUE(user_id, zone_id): an INSERT of a pair the table holds fails
UniqueViolation(rows, uid, zone) ==
    \E r \in rows : r.user_id = uid /\ r.zone_id = zone

\* What a step of the favorites routes leaves alone
favRest == <<scoringVars, rateVars, cacheVars, authVars, appVars>>

FavDone(r, status, action) == [r EXCEPT !.pc = "done", !.status = status, !.action = action]

\* Both handlers up to the first await on the favorites table: validation,
\* then the zone's existence
FavStart(p) ==
    /\ favReq[p].pc = "idle"
    /\ favStarted < MaxFavRequests
    /\ \E kind \in {"add", "toggle"}, z \in ZoneIdInputs :
         LET r == [NoFavReq EXCEPT !.kind = kind, !.zone_id = z] IN
         favReq' = [favReq EXCEPT ![p] =
                      IF z = "" THEN FavDone(r, 400, "none")
                      ELSE IF z \notin InvestmentZones THEN FavDone(r, 404, "none")
                      ELSE [r EXCEPT !.pc = "check"]]
    /\ favStarted' = favStarted + 1
    /\ UNCHANGED <<favorites, nextId>>
    /\ UNCHANGED favRest

\* "Check if already favorited"
FavCheck(p) ==
    /\ favReq[p].pc = "check"
    /\ LET r == favReq[p]
           e == SelectFavorite(favorites, FavUser, r.zone_id)
           q == [r EXCEPT !.existing = e,
                          !.found = IF e # 0 THEN "select" ELSE "none"]
       IN favReq' = [favReq EXCEPT ![p] =
                       IF e # 0
                       THEN IF r.kind = "add" THEN FavDone(q, 409, "none")
                                              ELSE [q EXCEPT !.pc = "delete"]
                       ELSE [q EXCEPT !.pc = "insert"]]
    /\ UNCHANGED <<favorites, nextId, favStarted>>
    /\ UNCHANGED favRest

\* INSERT INTO favorites: a constraint failure makes run() throw, and the
\* catch block answers 500
FavInsert(p) ==
    /\ favReq[p].pc = "insert"
    /\ LET r == favReq[p] IN
       IF UniqueViolation(favorites, FavUser, r.zone_id)
       THEN /\ favReq' = [favReq EXCEPT ![p] =
                            FavDone([r EXCEPT !.found = "insert"], 500, "none")]
            /\ UNCHANGED <<favorites, nextId>>
       ELSE /\ favorites' = favorites \cup
                    {[id |-> nextId, user_id |-> FavUser, zone_id |-> r.zone_id]}
            /\ nextId' = nextId + 1
            /\ favReq' = [favReq EXCEPT ![p] =
                            IF r.kind = "add"
                            THEN [r EXCEPT !.pc = "read", !.last_row_id = nextId]
                            ELSE FavDone([r EXCEPT !.last_row_id = nextId], 201, "added")]
    /\ UNCHANGED favStarted
    /\ UNCHANGED favRest

\* POST /favorites reads the created row back: newFavorite.id of a row that
\* is gone is a TypeError, and the catch block answers 500
FavReadBack(p) ==
    /\ favReq[p].pc = "read"
    /\ LET r == favReq[p] IN
       favReq' = [favReq EXCEPT ![p] =
                    IF \E f \in favorites : f.id = r.last_row_id
                    THEN FavDone(r, 201, "added")
                    ELSE FavDone(r, 500, "none")]
    /\ UNCHANGED <<favorites, nextId, favStarted>>
    /\ UNCHANGED favRest

\* POST /favorites/toggle: DELETE FROM favorites WHERE id = ?
FavDelete(p) ==
    /\ favReq[p].pc = "delete"
    /\ favorites' = {f \in favorites : f.id # favReq[p].existing}
    /\ favReq' = [favReq EXCEPT ![p] = FavDone(favReq[p], 200, "removed")]
    /\ UNCHANGED <<nextId, favStarted>>
    /\ UNCHANGED favRest

\* The response is sent; the client may send its next request
FavRespond(p) ==
    /\ favReq[p].pc = "done"
    /\ favReq' = [favReq EXCEPT ![p] = NoFavReq]
    /\ UNCHANGED <<favorites, nextId, favStarted>>
    /\ UNCHANGED favRest

CoreIdle == /\ wq = NoWeights
            /\ cw = Zero5
            /\ fromClient = FALSE
            /\ sub = Zero5
            /\ srv = NoSrv
            /\ cli = NoCli

ScoringIdle == /\ CoreIdle
               /\ ApiIdle
               /\ LibIdle

InitFav == /\ ScoringIdle
           /\ SideIdle

NextFav == \/ \E p \in FavClients : FavStart(p)
           \/ \E p \in FavClients : FavCheck(p)
           \/ \E p \in FavClients : FavInsert(p)
           \/ \E p \in FavClients : FavReadBack(p)
           \/ \E p \in FavClients : FavDelete(p)
           \/ \E p \in FavClients : FavRespond(p)

SpecFav == InitFav /\ [][NextFav]_vars

\* C23: after any interleaving of POST /favorites and POST /favorites/toggle
\* of one user for one zone the table holds at most one row for the pair, and
\* a request that found the zone already favorited, at its SELECT or at its
\* INSERT, has answered 409 (add) or removed the row (toggle), never 500
C23_OneRowNoServerError ==
    /\ \A f, g \in favorites :
         (f.user_id = g.user_id /\ f.zone_id = g.zone_id) => f = g
    /\ \A p \in FavClients :
         (favReq[p].pc = "done" /\ favReq[p].found # "none") =>
             /\ favReq[p].kind = "add" => favReq[p].status = 409
             /\ favReq[p].kind = "toggle" =>
                    (favReq[p].status = 200 /\ favReq[p].action = "removed")

----------------------------------------------------------------------------
\* The rate limiting middleware (deploy.sh) over the KV store: the requests
\* of one client IP inside one one-minute window, so all of them use one key.
\* KV.get and KV.put are awaited, so concurrent requests interleave there.

\* c.env.RATE_LIMIT_REQUESTS
RATE_LIMIT_REQUESTS == Text(NatToText(ConfiguredLimit))

\* parseInt(c.env.RATE_LIMIT_REQUESTS || '100')
maxRequests ==
    parseInt(IF RATE_LIMIT_REQUESTS.given /\ RATE_LIMIT_REQUESTS.text # <<>>
             THEN RATE_LIMIT_REQUESTS.text ELSE <<"1", "0", "0">>).v

\* currentCount ? parseInt(currentCount) : 0
CountOf(currentCount) ==
    IF currentCount.given /\ currentCount.text # <<>>
    THEN parseInt(currentCount.text).v ELSE 0

\* What a step of the middleware leaves alone
rateRest == <<scoringVars, favVars, cacheVars, authVars, appVars>>

\* await KV.get(rateLimitKey), then the test against the limit
RateGet(p) ==
    /\ rateReq[p].pc = "idle"
    /\ LET count == CountOf(kv) IN
       rateReq' = [rateReq EXCEPT ![p] =
                     IF count >= maxRequests
                     THEN [pc |-> "done", count |-> count, status |-> 429]
                     ELSE [pc |-> "put", count |-> count, status |-> 0]]
    /\ UNCHANGED <<kv, passed>>
    /\ UNCHANGED rateRest

\* await KV.put(rateLimitKey, (count + 1).toString()), then next()
RatePut(p) ==
    /\ rateReq[p].pc = "put"
    /\ kv' = Text(NatToText(rateReq[p].count + 1))
    /\ passed' = passed + 1
    /\ rateReq' = [rateReq EXCEPT ![p] = [@ EXCEPT !.pc = "done", !.status = 200]]
    /\ UNCHANGED rateRest

InitRate == /\ ScoringIdle
            /\ SideIdle

NextRate == \/ \E p \in RateClients : RateGet(p)
            \/ \E p \in RateClients : RatePut(p)

SpecRate == InitRate /\ [][NextRate]_vars

\* C24: within one window the middleware lets at most maxRequests requests
\* of one client IP through to the route handlers
C24_AtMostMaxRequestsPass == passed <= maxRequests

----------------------------------------------------------------------------
\* The cache of the client API (frontend/src/lib/api.ts).  fetchWithCache
\* reads the Map, awaits the request and then writes the Map, so calls
\* interleave with each other and with clearCache at the await.  Time is in
\* minutes.

\* The bodies response.json() yields
ServerData == {1, 2}

\* The timeouts setCacheTimeout is called with
CacheTimeouts == {1, DefaultCacheTimeout}

\* cached && Date.now() - cached.timestamp < this.cacheTimeout
IsFresh(cached, now, timeout) == cached.has /\ now - cached.timestamp < timeout

\* A catch block that rethrows whatever the cache held
FallbackThrows(cached) == [outcome |-> "error", result |-> 0]

\* The catch block: "Return cached data if available, even if stale", with the
\* cached of the beginning of the call
Fallback(cached) == IF cached.has THEN [outcome |-> "stale", result |-> cached.data]
                    ELSE [outcome |-> "error", result |-> 0]

\* What a step of the client cache leaves alone
cacheRest == <<scoringVars, favVars, rateVars, authVars, appVars>>

\* fetchWithCache up to its await: the cache hit, or the request is sent
FetchWithCache(p) ==
    /\ calls[p].pc = "idle"
    /\ \E k \in CacheKeys :
         LET cached == cache[k] IN
         IF IsFresh(cached, clock, cacheTimeout)
         THEN /\ returned' = [NoReturn EXCEPT !.outcome = "hit", !.key = k,
                                 !.age = clock - cached.timestamp,
                                 !.timeout = cacheTimeout,
                                 !.cached = DataOf(cached), !.seen = DataOf(cached),
                                 !.result = cached.data]
              /\ UNCHANGED calls
         ELSE /\ calls' = [calls EXCEPT ![p] =
                             [pc |-> "fetching", key |-> k, cached |-> DataOf(cached)]]
              /\ UNCHANGED returned
    /\ UNCHANGED <<cache, clock, cacheTimeout>>
    /\ UNCHANGED cacheRest

\* The request succeeds: this.cache.set(cacheKey, {data, timestamp: Date.now()})
FetchSucceeds(p) ==
    /\ calls[p].pc = "fetching"
    /\ \E data \in ServerData :
         LET k == calls[p].key IN
         /\ cache' = [cache EXCEPT ![k] = [has |-> TRUE, data |-> data, timestamp |-> clock]]
         /\ returned' = [NoReturn EXCEPT !.outcome = "fetched", !.key = k, !.sent = TRUE,
                            !.cached = calls[p].cached, !.seen = DataOf(cache[k]),
                            !.kept = (cache'[k] = cache[k]),
                            !.result = data]
    /\ calls' = [calls EXCEPT ![p] = NoCall]
    /\ UNCHANGED <<clock, cacheTimeout>>
    /\ UNCHANGED cacheRest

\* The request fails, by a network error or a status that is not OK
FetchFails(p) ==
    /\ calls[p].pc = "fetching"
    /\ UNCHANGED <<cache, clock, cacheTimeout>>
    /\ LET k == calls[p].key
           f == Fallback(calls[p].cached)
       IN returned' = [NoReturn EXCEPT !.outcome = f.outcome, !.key = k, !.sent = TRUE,
                         !.cached = calls[p].cached, !.seen = DataOf(cache[k]),
                         !.kept = (cache'[k] = cache[k]),
                         !.result = f.result]
    /\ calls' = [calls EXCEPT ![p] = NoCall]
    /\ UNCHANGED cacheRest

\* clearCache(): this.cache.clear()
ClearCache ==
    /\ cache' = [k \in CacheKeys |-> NoEntry]
    /\ UNCHANGED <<clock, cacheTimeout, calls, returned>>
    /\ UNCHANGED cacheRest

\* setCacheTimeout(timeout)
SetCacheTimeout ==
    /\ \E t \in CacheTimeouts : cacheTimeout' = t
    /\ UNCHANGED <<cache, clock, calls, returned>>
    /\ UNCHANGED cacheRest

\* Date.now() advances
CacheTick ==
    /\ clock < MaxClock
    /\ clock' = clock + 1
    /\ UNCHANGED <<cache, cacheTimeout, calls, returned>>
    /\ UNCHANGED cacheRest

InitCache == /\ ScoringIdle
             /\ SideIdle

NextCache == \/ \E p \in CacheCallers : FetchWithCache(p)
             \/ \E p \in CacheCallers : FetchSucceeds(p)
             \/ \E p \in CacheCallers : FetchFails(p)
             \/ ClearCache
             \/ SetCacheTimeout
             \/ CacheTick

SpecCache == InitCache /\ [][NextCache]_vars

Failed(r) == r.outcome \in {"stale", "error"}

\* A call answered from the cache sent no request and found an entry
\* younger than the timeout, whose data it returned
HitIsYoung == returned.outcome = "hit" =>
                  /\ ~returned.sent
                  /\ returned.cached.has
                  /\ returned.age < returned.timeout
                  /\ returned.result = returned.cached.data

\* C25 as stated: a call whose request fails returns the entry the key has
\* then, however old, leaves it unchanged, and raises an error only if the
\* key has no entry
C25_FailureReturnsExistingEntry ==
    /\ HitIsYoung
    /\ returned.outcome \in {"fetched", "stale", "error"} => returned.sent
    /\ Failed(returned) =>
          /\ returned.kept
          /\ returned.seen.has =>
                (returned.outcome = "stale" /\ returned.result = returned.seen.data)
          /\ returned.outcome = "error" => ~returned.seen.has

\* C25: a call whose request fails returns the entry its key had when the
\* call began, however old, leaves the key's entry unchanged, and raises an
\* error exactly if the key had no entry when the call began
C25_FailureReturnsEntryOfCallStart ==
    /\ HitIsYoung
    /\ returned.outcome \in {"fetched", "stale", "error"} => returned.sent
    /\ Failed(returned) =>
          /\ returned.kept
          /\ returned.cached.has =>
                (returned.outcome = "stale" /\ returned.result = returned.cached.data)
          /\ returned.outcome = "error" <=> ~returned.cached.has

\* A failed call returned the entry of its beginning although the key held
\* another entry by then
C25_Witness == /\ returned.outcome = "stale"
               /\ returned.seen.has
               /\ returned.seen # returned.cached
               /\ returned.result = returned.cached.data

----------------------------------------------------------------------------
\* The AuthProvider of the client (unnamed/part_000).  A token is the number
\* of its issue, 0 is null.  login, register, refreshToken and verifyToken
\* await their request, so requests overlap and complete in any order; the
\* server answers each one ok or not.

\* What a step of AuthProvider leaves alone
authRest == <<scoringVars, favVars, rateVars, cacheVars, appVars>>

AuthEventOf(kind, ok, tok) == [kind |-> kind, ok |-> ok, tok |-> tok, before |-> token]

\* "Initialize auth state from localStorage", the effect of the first render
AuthMount ==
    /\ authEvent.kind = "none"
    /\ IF storedToken # 0 /\ storedUser
       THEN /\ token' = storedToken
            /\ user' = TRUE
            /\ authCalls' = authCalls \cup {[kind |-> "verify", tok |-> storedToken]}
            /\ UNCHANGED isLoading
       ELSE /\ isLoading' = FALSE
            /\ UNCHANGED <<token, user, authCalls>>
    /\ authEvent' = AuthEventOf("mount", TRUE, storedToken)
    /\ UNCHANGED <<storedToken, storedUser, issued, loginTokens>>
    /\ UNCHANGED authRest

\* login / register up to await fetch
LoginStarts ==
    /\ authEvent.kind # "none"
    /\ Cardinality(authCalls) < MaxAuthCalls
    /\ \E kind \in {"login", "register"} :
         authCalls' = authCalls \cup {[kind |-> kind, tok |-> 0]}
    /\ UNCHANGED <<user, token, storedToken, storedUser, isLoading, issued,
                   loginTokens, authEvent>>
    /\ UNCHANGED authRest

\* login / register after the response: the session of data.token, or a
\* message
LoginCompletes ==
    /\ \E c \in authCalls :
         /\ c.kind \in {"login", "register"}
         /\ authCalls' = authCalls \ {c}
         /\ \/ /\ issued < MaxTokens
               /\ issued' = issued + 1
               /\ user' = TRUE
               /\ token' = issued + 1
               /\ storedToken' = issued + 1
               /\ storedUser' = TRUE
               /\ loginTokens' = loginTokens \cup {issued + 1}
               /\ authEvent' = AuthEventOf(c.kind, TRUE, issued + 1)
            \/ /\ authEvent' = AuthEventOf(c.kind, FALSE, 0)
               /\ UNCHANGED <<user, token, storedToken, storedUser, issued, loginTokens>>
    /\ UNCHANGED isLoading
    /\ UNCHANGED authRest

\* logout(): state and localStorage are cleared
Logout ==
    /\ authEvent.kind # "none"
    /\ user' = FALSE
    /\ token' = 0
    /\ storedToken' = 0
    /\ storedUser' = FALSE
    /\ authEvent' = AuthEventOf("logout", TRUE, 0)
    /\ UNCHANGED <<isLoading, authCalls, issued, loginTokens>>
    /\ UNCHANGED authRest

\* refreshToken up to await fetch: if (!token) return
RefreshStarts ==
    /\ authEvent.kind # "none"
    /\ token # 0
    /\ Cardinality(authCalls) < MaxAuthCalls
    /\ authCalls' = authCalls \cup {[kind |-> "refresh", tok |-> token]}
    /\ UNCHANGED <<user, token, storedToken, storedUser, isLoading, issued,
                   loginTokens, authEvent>>
    /\ UNCHANGED authRest

\* refreshToken after the response: data.token replaces the token, or logout()
RefreshCompletes ==
    /\ \E c \in authCalls :
         /\ c.kind = "refresh"
         /\ authCalls' = authCalls \ {c}
         /\ \/ /\ issued < MaxTokens
               /\ issued' = issued + 1
               /\ token' = issued + 1
               /\ storedToken' = issued + 1
               /\ authEvent' = AuthEventOf("refresh", TRUE, c.tok)
               /\ UNCHANGED <<user, storedUser>>
            \/ /\ user' = FALSE
               /\ token' = 0
               /\ storedToken' = 0
               /\ storedUser' = FALSE
               /\ authEvent' = AuthEventOf("refresh", FALSE, c.tok)
               /\ UNCHANGED issued
    /\ UNCHANGED <<isLoading, loginTokens>>
    /\ UNCHANGED authRest

\* verifyToken after the response: setToken(tokenToVerify), or logout();
\* finally setIsLoading(false)
VerifyCompletes ==
    /\ \E c \in authCalls :
         /\ c.kind = "verify"
         /\ authCalls' = authCalls \ {c}
         /\ \/ /\ user' = TRUE
               /\ token' = c.tok
               /\ authEvent' = AuthEventOf("verify", TRUE, c.tok)
               /\ UNCHANGED <<storedToken, storedUser>>
            \/ /\ user' = FALSE
               /\ token' = 0
               /\ storedToken' = 0
               /\ storedUser' = FALSE
               /\ authEvent' = AuthEventOf("verify", FALSE, c.tok)
    /\ isLoading' = FALSE
    /\ UNCHANGED <<issued, loginTokens>>
    /\ UNCHANGED authRest

\* localStorage holds the session of an earlier visit, or nothing
InitAuth == /\ ScoringIdle
            /\ FavIdle
            /\ RateIdle
            /\ CacheIdle
            /\ AppIdle
            /\ user = FALSE
            /\ token = 0
            /\ storedUser \in BOOLEAN
            /\ storedToken = (IF storedUser THEN 1 ELSE 0)
            /\ issued = storedToken
            /\ isLoading = TRUE
            /\ authCalls = {}
            /\ loginTokens = {}
            /\ authEvent = NoAuthEvent

NextAuth == \/ AuthMount
            \/ LoginStarts
            \/ LoginCompletes
            \/ Logout
            \/ RefreshStarts
            \/ RefreshCompletes
            \/ VerifyCompletes

SpecAuth == InitAuth /\ [][NextAuth]_vars

\* C27: once the initial loading has finished the token in memory is the
\* token in localStorage, and a failed verify or refresh of an older token
\* has not cleared the session of a later login
C27_TokenMatchesStorage ==
    /\ ~isLoading => token = storedToken
    /\ (/\ authEvent.kind \in {"verify", "refresh"}
        /\ ~authEvent.ok
        /\ authEvent.before \in loginTokens
        /\ authEvent.tok < authEvent.before) => token = authEvent.before

----------------------------------------------------------------------------
\* The comparison list of the client App (frontend/src/App.tsx) and the
\* CompareDrawer that shows it (frontend/src/components/FavoritesDashboard.tsx).
\* An event handler sets state, React renders again, and the drawer is given
\* the array of the state as its areas: an event and the render it causes
\* are one step.

\* The s_total of the areas the user can pick; the fourth ties with the first
AppTotals == <<7150, 2000, 8000>>

AppAreaIds == 1..MaxAppAreas

AppArea(id) == [id |-> id, s_total |-> AppTotals[((id - 1) % Len(AppTotals)) + 1]]

IdsOf(list) == {list[i].id : i \in 1..Len(list)}

\* comparedAreas.find(a => a.id === area.id)
Find(list, id) == \E i \in 1..Len(list) : list[i].id = id

\* An insertion that keeps equal totals in their order, as the stable
\* Array.prototype.sort with (a, b) => b.s_total - a.s_total does
RECURSIVE InsertByTotalDesc(_, _)
InsertByTotalDesc(sorted, a) ==
    IF sorted = <<>> THEN <<a>>
    ELSE IF Head(sorted).s_total >= a.s_total
         THEN <<Head(sorted)>> \o InsertByTotalDesc(Tail(sorted), a)
         ELSE <<a>> \o sorted

RECURSIVE SortByTotalDesc(_)
SortByTotalDesc(list) ==
    IF list = <<>> THEN <<>>
    ELSE InsertByTotalDesc(SortByTotalDesc(SubSeq(list, 1, Len(list) - 1)),
                           list[Len(list)])

\* CompareDrawer: if (!isOpen) return null; areas.sort(...) sorts the array
\* it was given in place and returns that array
CompareDrawer(isOpen, areas) ==
    IF ~isOpen THEN [areas |-> areas, drawer |-> NoDrawer]
    ELSE [areas |-> SortByTotalDesc(areas),
          drawer |-> [rendered |-> TRUE, before |-> areas,
                      sortedAreas |-> SortByTotalDesc(areas)]]

\* A handler that tests the length only
handleCompareAreaAnyId(list, area) ==
    IF Len(list) < 3 THEN Append(list, area) ELSE list

\* handleCompareArea: the next comparedAreas
handleCompareArea(list, area) ==
    IF Len(list) < 3 /\ ~Find(list, area.id) THEN Append(list, area) ELSE list

\* handleRemoveFromComparison: the next comparedAreas
handleRemoveFromComparison(list, areaId) ==
    SelectSeq(list, LAMBDA a : a.id # areaId)

\* What a step of App leaves alone
appRest == <<scoringVars, favVars, rateVars, cacheVars, authVars>>

\* App renders with the state given, and CompareDrawer with it
RenderApp(list, show) ==
    LET r == CompareDrawer(show, list) IN
    /\ comparedAreas' = r.areas
    /\ showCompareDrawer' = show
    /\ drawer' = r.drawer

CompareArea ==
    /\ \E id \in AppAreaIds :
         /\ RenderApp(handleCompareArea(comparedAreas, AppArea(id)), showCompareDrawer)
         /\ appEvent' = [kind |-> "compare", area |-> AppArea(id), before |-> comparedAreas]
    /\ UNCHANGED appRest

RemoveFromComparison ==
    /\ \E id \in AppAreaIds :
         /\ RenderApp(handleRemoveFromComparison(comparedAreas, id), showCompareDrawer)
         /\ appEvent' = [kind |-> "remove", area |-> AppArea(id), before |-> comparedAreas]
    /\ UNCHANGED appRest

\* setShowCompareDrawer(true)
OpenCompareDrawer ==
    /\ ~showCompareDrawer
    /\ RenderApp(comparedAreas, TRUE)
    /\ appEvent' = [NoAppEvent EXCEPT !.kind = "open", !.before = comparedAreas]
    /\ UNCHANGED appRest

\* onClose: setShowCompareDrawer(false)
CloseCompareDrawer ==
    /\ showCompareDrawer
    /\ RenderApp(comparedAreas, FALSE)
    /\ appEvent' = [NoAppEvent EXCEPT !.kind = "close", !.before = comparedAreas]
    /\ UNCHANGED appRest

InitApp == /\ ScoringIdle
           /\ SideIdle

NextApp == \/ CompareArea
           \/ RemoveFromComparison
           \/ OpenCompareDrawer
           \/ CloseCompareDrawer

SpecApp == InitApp /\ [][NextApp]_vars

\* C28: after the compare drawer has rendered, the list of its caller holds
\* the elements it held before, in the same order
C28_DrawerLeavesListAlone == drawer.rendered => comparedAreas = drawer.before

====
